---- MODULE Spec2Model ----
(***************************************************************************)
(* Model of what.py: extract_article_numbers, find_matching_descriptions   *)
(* and save_to_pdf, driven in sequence as main() drives them.              *)
(*                                                                         *)
(* A line is a sequence of one-character strings; a page text is a         *)
(* sequence of characters in which "\n" separates lines.  Regular          *)
(* expressions are modelled by what re.findall / re.search compute.        *)
(* The loop variables of a loop that has ended (text, line, page) are dead *)
(* and are reset when the loop is left.                                    *)
(***************************************************************************)
EXTENDS Integers, Sequences, FiniteSets, TLC

VARIABLES pc, reader, article_numbers, order, nfiles, file, fi, npages, pi,
          lines, li, matches, found_articles, backing, opened,
          sorted_matches, not_found

vars == <<pc, reader, article_numbers, order, nfiles, file, fi, npages, pi,
          lines, li, matches, found_articles, backing, opened,
          sorted_matches, not_found>>

(***************************************************************************)
(* Bounds                                                                  *)
(***************************************************************************)
MaxSrcPages == 1
MaxSrcLines == 2
MaxFiles == 2
MaxPages == 2
MaxLines == 2
MaxMatches == 2

(***************************************************************************)
(* Characters                                                              *)
(***************************************************************************)
DigitChars == <<"0", "1", "2", "3", "4", "5", "6", "7", "8", "9">>

IsDigit(c) == \E i \in 1..10 : DigitChars[i] = c

DigitVal(c) == (CHOOSE i \in 1..10 : DigitChars[i] = c) - 1

IsAlpha(c) == c \in {"a", "W"}

\* \w of the re module: letters, digits and the underscore
IsWord(c) == IsDigit(c) \/ IsAlpha(c) \/ c = "_"

IsSpace(c) == c \in {" ", "\t", "\n"}

RECURSIVE Num(_)
\* int(s) for a string of decimal digits
Num(s) == IF s = <<>> THEN 0
          ELSE 10 * Num(SubSeq(s, 1, Len(s) - 1)) + DigitVal(s[Len(s)])

\* float('inf') as a sort key: above every 6-digit number
Inf == 1000000

(***************************************************************************)
(* Regular expressions                                                     *)
(***************************************************************************)
WordAt(s, i) == i >= 1 /\ i <= Len(s) /\ IsWord(s[i])

\* \b between positions i and i+1 (0 <= i <= Len(s))
Boundary(s, i) == WordAt(s, i) # WordAt(s, i + 1)

\* the pattern without its closing \b
MatchArticleNoClosing(s, p) ==
    /\ p >= 1
    /\ p + 5 <= Len(s)
    /\ Boundary(s, p - 1)
    /\ s[p] = "1"
    /\ \A k \in 1..5 : IsDigit(s[p + k])

\* r'\b1\d{5}\b' matches at position p
MatchArticleAt(s, p) ==
    /\ p >= 1
    /\ p + 5 <= Len(s)
    /\ Boundary(s, p - 1)
    /\ s[p] = "1"
    /\ \A k \in 1..5 : IsDigit(s[p + k])
    /\ Boundary(s, p + 5)

RECURSIVE FindAllFrom(_, _)
FindAllFrom(s, p) ==
    IF p > Len(s) THEN <<>>
    ELSE IF MatchArticleAt(s, p)
         THEN <<SubSeq(s, p, p + 5)>> \o FindAllFrom(s, p + 6)
         ELSE FindAllFrom(s, p + 1)

\* re.findall(r'\b1\d{5}\b', line): leftmost, non-overlapping matches
FindAll(line) == FindAllFrom(line, 1)

\* the identifier as a plain substring, without the two \b
MatchNumberNoBoundary(s, number, p) ==
    /\ p >= 1
    /\ p + Len(number) - 1 <= Len(s)
    /\ SubSeq(s, p, p + Len(number) - 1) = number

\* rf'\b{number}\b' matches at position p
MatchNumberAt(s, number, p) ==
    /\ p >= 1
    /\ p + Len(number) - 1 <= Len(s)
    /\ Boundary(s, p - 1)
    /\ SubSeq(s, p, p + Len(number) - 1) = number
    /\ Boundary(s, p + Len(number) - 1)

\* re.search(rf'\b{number}\b', line) is not None
SearchNumber(number, line) == \E p \in 1..Len(line) : MatchNumberAt(line, number, p)

\* r'\b(\d{6})\b' matches at position p
MatchSixAt(s, p) ==
    /\ p >= 1
    /\ p + 5 <= Len(s)
    /\ Boundary(s, p - 1)
    /\ \A k \in 0..5 : IsDigit(s[p + k])
    /\ Boundary(s, p + 5)

HasSix(line) == \E p \in 1..Len(line) : MatchSixAt(line, p)

\* re.search(r'\b(\d{6})\b', line).group(1): the leftmost match
FirstSix(line) ==
    LET p == CHOOSE q \in 1..Len(line) :
                 MatchSixAt(line, q) /\ \A r \in 1..(q - 1) : ~MatchSixAt(line, r)
    IN  SubSeq(line, p, p + 5)

(***************************************************************************)
(* str.split("\n") and str.strip()                                         *)
(***************************************************************************)
RECURSIVE SplitFrom(_, _, _)
\* cur is the line being accumulated, p the next character to read
SplitFrom(text, p, cur) ==
    IF p > Len(text) THEN <<cur>>
    ELSE IF text[p] = "\n"
         THEN <<cur>> \o SplitFrom(text, p + 1, <<>>)
         ELSE SplitFrom(text, p + 1, Append(cur, text[p]))

Split(text) == SplitFrom(text, 1, <<>>)

RECURSIVE LStrip(_)
LStrip(s) == IF s # <<>> /\ IsSpace(Head(s)) THEN LStrip(Tail(s)) ELSE s

RECURSIVE RStrip(_)
RStrip(s) == IF s # <<>> /\ IsSpace(s[Len(s)])
             THEN RStrip(SubSeq(s, 1, Len(s) - 1)) ELSE s

Strip(s) == RStrip(LStrip(s))

(***************************************************************************)
(* Input pools                                                             *)
(***************************************************************************)
A1 == <<"1", "0", "0", "0", "0", "1">>
A2 == <<"1", "0", "0", "0", "0", "2">>
A3 == <<"1", "0", "0", "0", "0", "3">>
B2 == <<"2", "0", "0", "0", "0", "0">>
SP == <<" ">>

IdPool == {A1, A2, A3}

\* lines of the reference document
SrcLines == { A1,
              A1 \o SP \o A2,
              A1 \o <<"1">>,
              <<"a">> \o A3,
              A3 \o <<"_">>,
              B2 \o <<"-">> \o A2 }

\* lines of the candidate documents
CandLines == { A1 \o SP \o <<"W">>,
               SP \o A2 \o SP,
               A1 \o SP \o A2,
               B2 \o SP \o A1,
               A1 \o <<"1">>,
               <<"a">> \o A2 }

RECURSIVE Join(_)
\* "\n".join(ls)
Join(ls) == IF ls = <<>> THEN <<>>
            ELSE IF Len(ls) = 1 THEN ls[1]
            ELSE ls[1] \o <<"\n">> \o Join(Tail(ls))

SeqsUpTo(S, n) == UNION { [1..k -> S] : k \in 0..n }

SrcTexts == { Join(ls) : ls \in SeqsUpTo(SrcLines, MaxSrcLines) }

CandTexts == { Join(ls) : ls \in SeqsUpTo(CandLines, MaxLines) }

SrcReaders == [readable : {TRUE}, pages : SeqsUpTo(SrcTexts, MaxSrcPages)]
                  \cup {[readable |-> FALSE, pages |-> <<>>]}

FileKinds == {"pdf", "corrupt", "other", "source"}

NoFile == "none"

Perms(S) == { s \in [1..Cardinality(S) -> S] :
                 \A i, j \in 1..Cardinality(S) : i # j => s[i] # s[j] }

NoReader == [readable |-> TRUE, pages |-> <<>>]


ToSet(seq) == { seq[i] : i \in 1..Len(seq) }

AllFound == Cardinality(found_articles) = Cardinality(article_numbers)

(***************************************************************************)
(* extract_article_numbers                                                 *)
(***************************************************************************)
RECURSIVE UpdateFromLines(_, _, _)
\* the loop over the lines of one page: article_numbers.update(matches)
UpdateFromLines(numbers, ls, k) ==
    IF k > Len(ls) THEN numbers
    ELSE UpdateFromLines(numbers \cup ToSet(FindAll(ls[k])), ls, k + 1)

RECURSIVE UpdateFromPages(_, _, _)
\* the loop over the pages; a page without text is skipped
UpdateFromPages(numbers, pages, k) ==
    IF k > Len(pages) THEN numbers
    ELSE IF pages[k] = <<>> THEN UpdateFromPages(numbers, pages, k + 1)
    ELSE UpdateFromPages(UpdateFromLines(numbers, Split(pages[k]), 1), pages, k + 1)

extract_article_numbers(pages) == UpdateFromPages({}, pages, 1)

(***************************************************************************)
(* find_matching_descriptions: the loop over the identifiers for one line  *)
(***************************************************************************)
RECURSIVE NumberLoopNoBreak(_, _, _, _)
\* the loop without its break
NumberLoopNoBreak(line, ord, found, k) ==
    IF k > Len(ord) THEN <<>>
    ELSE IF ord[k] \in found THEN NumberLoopNoBreak(line, ord, found, k + 1)
    ELSE IF SearchNumber(ord[k], line)
         THEN <<ord[k]>> \o NumberLoopNoBreak(line, ord, found, k + 1)
         ELSE NumberLoopNoBreak(line, ord, found, k + 1)

RECURSIVE NumberLoop(_, _, _, _)
\* the identifiers for which the line is recorded, in iteration order,
\* starting at the k-th identifier; the loop breaks at the first hit
NumberLoop(line, ord, found, k) ==
    IF k > Len(ord) THEN <<>>
    ELSE IF ord[k] \in found THEN NumberLoop(line, ord, found, k + 1)
    ELSE IF SearchNumber(ord[k], line) THEN <<ord[k]>>
    ELSE NumberLoop(line, ord, found, k + 1)

\* the set overwritten instead of extended
ReplaceFound(found, number) == {number}

\* found_articles.add(number)
AddFound(found, number) == found \cup {number}

RECURSIVE AddHits(_, _)
AddHits(found, hits) ==
    IF hits = <<>> THEN found
    ELSE AddHits(AddFound(found, Head(hits)), Tail(hits))

(***************************************************************************)
(* save_to_pdf                                                             *)
(***************************************************************************)
\* any() in place of all()
KeepAny(line, found) ==
    \E i \in 1..Len(FindAll(line)) : FindAll(line)[i] \in found

\* all(num in found_articles for num in line_numbers)
KeepLine(line, found) ==
    \A i \in 1..Len(FindAll(line)) : FindAll(line)[i] \in found

\* the match list passed on unfiltered
Unfiltered(ms, found) == ms

Filtered(ms, found) == SelectSeq(ms, LAMBDA l : KeepLine(l, found))

get_article_number(line) == IF HasSix(line) THEN Num(FirstSix(line)) ELSE Inf

RECURSIVE InsertByKey(_, _)
\* put line behind every element whose key is not greater: a stable sort
InsertByKey(sorted, line) ==
    IF sorted = <<>> THEN <<line>>
    ELSE IF get_article_number(sorted[Len(sorted)]) <= get_article_number(line)
         THEN Append(sorted, line)
         ELSE Append(InsertByKey(SubSeq(sorted, 1, Len(sorted) - 1), line),
                     sorted[Len(sorted)])

RECURSIVE SortedByKey(_)
\* sorted(filtered_matches, key=get_article_number)
SortedByKey(ms) ==
    IF ms = <<>> THEN <<>>
    ELSE InsertByKey(SortedByKey(SubSeq(ms, 1, Len(ms) - 1)), ms[Len(ms)])

MatchedNumbers(sorted) ==
    { FirstSix(sorted[i]) : i \in { j \in 1..Len(sorted) : HasSix(sorted[j]) } }

RECURSIVE SortedByInt(_)
\* sorted(S, key=lambda x: int(x))
SortedByInt(S) ==
    IF S = {} THEN <<>>
    ELSE LET m == CHOOSE x \in S : \A y \in S : Num(x) <= Num(y)
         IN  <<m>> \o SortedByInt(S \ {m})

NotFound(numbers, sorted) == SortedByInt(numbers \ MatchedNumbers(sorted))

(***************************************************************************)
(* Initial state: main() before the reference document is read             *)
(***************************************************************************)
Init ==
    /\ pc = "extract"
    /\ reader \in SrcReaders
    /\ article_numbers = {}
    /\ order = <<>>
    /\ nfiles = 0
    /\ file = NoFile
    /\ fi = 0
    /\ npages = 0
    /\ pi = 0
    /\ lines = <<>>
    /\ li = 0
    /\ matches = <<>>
    /\ found_articles = {}
    /\ backing = <<>>
    /\ opened = 0
    /\ sorted_matches = <<>>
    /\ not_found = <<>>

scan == <<nfiles, file, fi, npages, pi, lines, li, opened>>
result == <<matches, found_articles, backing>>
report == <<sorted_matches, not_found>>

(***************************************************************************)
(* main: article_numbers = extract_article_numbers("main_pdf.pdf")         *)
(***************************************************************************)
ExtractArticleNumbers ==
    /\ pc = "extract"
    /\ reader.readable
    /\ article_numbers' = extract_article_numbers(reader.pages)
    /\ pc' = "extracted"
    /\ UNCHANGED <<reader, order, scan, result, report>>

\* PdfReader raises on a file that is not a valid document
ExtractFails ==
    /\ pc = "extract"
    /\ ~reader.readable
    /\ pc' = "failed"
    /\ UNCHANGED <<reader, article_numbers, order, scan, result, report>>

(***************************************************************************)
(* find_matching_descriptions                                              *)
(***************************************************************************)
\* entry: the empty results, the directory listing and the iteration order
\* of the identifier set; what each file of the listing is shows when the
\* loop reaches it
FindStart ==
    /\ pc = "extracted"
    /\ matches' = <<>>
    /\ found_articles' = {}
    /\ backing' = <<>>
    /\ nfiles' \in 0..MaxFiles
    /\ file' = NoFile
    /\ order' \in Perms(article_numbers)
    /\ fi' = 0
    /\ opened' = 0
    /\ reader' = NoReader
    /\ pc' = "file"
    /\ UNCHANGED <<article_numbers, npages, pi, lines, li, report>>

\* a file that is not a PDF, or is the source PDF, is passed over
SkipFile ==
    /\ pc = "file"
    /\ fi < nfiles
    /\ file' \in {"other", "source"}
    /\ fi' = fi + 1
    /\ UNCHANGED <<pc, reader, article_numbers, order, nfiles, npages, pi,
                   lines, li, opened, result, report>>

\* reader = PdfReader(filepath)
OpenDoc ==
    /\ pc = "file"
    /\ fi < nfiles
    /\ file' = "pdf"
    /\ npages' \in 0..MaxPages
    /\ pi' = 0
    /\ opened' = opened + 1
    /\ pc' = "page"
    /\ UNCHANGED <<reader, article_numbers, order, nfiles, fi, lines, li,
                   result, report>>

\* PdfReader raises: the matching pass fails
OpenFails ==
    /\ pc = "file"
    /\ fi < nfiles
    /\ file' = "corrupt"
    /\ opened' = opened + 1
    /\ pc' = "failed"
    /\ UNCHANGED <<reader, article_numbers, order, nfiles, fi, npages, pi,
                   lines, li, result, report>>

\* the listing is exhausted: return matches, found_articles
ListingDone ==
    /\ pc = "file"
    /\ fi = nfiles
    /\ pc' = "save"
    /\ UNCHANGED <<reader, article_numbers, order, scan, result, report>>

\* text = page.extract_text() of the next page; no text: continue
ExtractPage ==
    /\ pc = "page"
    /\ pi < npages
    /\ pi' = pi + 1
    /\ \E text \in CandTexts :
          IF text = <<>>
          THEN /\ lines' = <<>>
               /\ li' = 0
               /\ pc' = "page"
          ELSE /\ lines' = Split(text)
               /\ li' = 0
               /\ pc' = "line"
    /\ UNCHANGED <<reader, article_numbers, order, nfiles, file, fi, npages, opened,
                   result, report>>

\* one iteration of the loop over the lines: the loop over the identifiers
\* and the test that ends the loop over the lines
ScanLine ==
    /\ pc = "line"
    /\ li < Len(lines)
    /\ LET line == lines[li + 1]
           hits == NumberLoop(line, order, found_articles, 1)
       IN  /\ matches' = matches \o [i \in 1..Len(hits) |-> Strip(line)]
           /\ backing' = backing \o hits
           /\ found_articles' = AddHits(found_articles, hits)
    /\ IF Cardinality(found_articles') = Cardinality(article_numbers)
       THEN /\ pc' = "page"
            /\ lines' = <<>>
            /\ li' = 0
       ELSE /\ pc' = "line"
            /\ lines' = lines
            /\ li' = li + 1
    /\ UNCHANGED <<reader, article_numbers, order, nfiles, file, fi, npages, pi,
                   opened, report>>

\* the lines of the page are exhausted
LinesDone ==
    /\ pc = "line"
    /\ li = Len(lines)
    /\ pc' = "page"
    /\ lines' = <<>>
    /\ li' = 0
    /\ UNCHANGED <<reader, article_numbers, order, nfiles, file, fi, npages, pi,
                   opened, result, report>>

\* the pages are exhausted and every identifier is found: break
DocDoneBreak ==
    /\ pc = "page"
    /\ pi = npages
    /\ AllFound
    /\ pc' = "save"
    /\ npages' = 0
    /\ pi' = 0
    /\ UNCHANGED <<reader, article_numbers, order, nfiles, file, fi, lines, li,
                   opened, result, report>>

\* the pages are exhausted: on to the next file of the listing
DocDoneNext ==
    /\ pc = "page"
    /\ pi = npages
    /\ ~AllFound
    /\ fi' = fi + 1
    /\ pc' = "file"
    /\ npages' = 0
    /\ pi' = 0
    /\ UNCHANGED <<reader, article_numbers, order, nfiles, file, lines, li,
                   opened, result, report>>

(***************************************************************************)
(* save_to_pdf(matches, article_numbers, found_articles)                   *)
(***************************************************************************)
SaveToPdf ==
    /\ pc = "save"
    /\ sorted_matches' = SortedByKey(Filtered(matches, found_articles))
    /\ not_found' = NotFound(article_numbers, sorted_matches')
    /\ pc' = "done"
    /\ UNCHANGED <<reader, article_numbers, order, scan, result>>

Next ==
    \/ ExtractArticleNumbers
    \/ ExtractFails
    \/ FindStart
    \/ SkipFile
    \/ OpenDoc
    \/ OpenFails
    \/ ListingDone
    \/ ExtractPage
    \/ ScanLine
    \/ LinesDone
    \/ DocDoneBreak
    \/ DocDoneNext
    \/ SaveToPdf

Spec == Init /\ [][Next]_vars

(***************************************************************************)
(* save_to_pdf called on its own with arbitrary arguments                  *)
(***************************************************************************)
ReportLines == { Strip(l) : l \in CandLines }
                   \cup {B2 \o SP \o <<"W">>, A2 \o SP \o A3}

InitReport ==
    /\ pc = "save"
    /\ reader = NoReader
    /\ article_numbers \in SUBSET IdPool
    /\ order = <<>>
    /\ nfiles = 0
    /\ file = NoFile
    /\ fi = 0
    /\ npages = 0
    /\ pi = 0
    /\ lines = <<>>
    /\ li = 0
    /\ matches \in SeqsUpTo(ReportLines, MaxMatches)
    /\ found_articles \in SUBSET IdPool
    /\ backing = <<>>
    /\ opened = 0
    /\ sorted_matches = <<>>
    /\ not_found = <<>>

NextReport == SaveToPdf

SpecReport == InitReport /\ [][NextReport]_vars

TypeOK ==
    /\ pc \in {"extract", "extracted", "failed", "file", "page", "line", "save", "done"}
    /\ article_numbers \subseteq IdPool
    /\ fi \in 0..nfiles
    /\ file \in FileKinds \cup {NoFile}
    /\ pi \in 0..npages
    /\ li \in 0..Len(lines)


(***************************************************************************)
(* Vocabulary of the properties                                            *)
(***************************************************************************)
InScan == pc \in {"file", "page", "line"}

\* '1' and 5 digits at p, with no word character (letter, digit,
\* underscore) right before or right behind
IsArticleToken(l, p) ==
    /\ p + 5 <= Len(l)
    /\ l[p] = "1"
    /\ \A k \in 1..5 : IsDigit(l[p + k])
    /\ (p = 1 \/ ~IsWord(l[p - 1]))
    /\ (p + 5 = Len(l) \/ ~IsWord(l[p + 6]))

ArticleTokens(l) ==
    { SubSeq(l, p, p + 5) : p \in { q \in 1..Len(l) : IsArticleToken(l, q) } }

\* '1' and 5 digits at p, with no digit right before or right behind
IsDigitRunToken(l, p) ==
    /\ p + 5 <= Len(l)
    /\ l[p] = "1"
    /\ \A k \in 1..5 : IsDigit(l[p + k])
    /\ (p = 1 \/ ~IsDigit(l[p - 1]))
    /\ (p + 5 = Len(l) \/ ~IsDigit(l[p + 6]))

DigitRunTokens(l) ==
    { SubSeq(l, p, p + 5) : p \in { q \in 1..Len(l) : IsDigitRunToken(l, q) } }

LinesOf(pages) == UNION { ToSet(Split(pages[i])) : i \in 1..Len(pages) }

\* the line under the loop over the lines, when one is
CurrentLine == lines[li + 1]

\* the line the last step scanned, while the loop over the lines goes on
LastLine == lines[li]

(***************************************************************************)
(* C1: a recorded line that holds an identifier-shaped token which is not  *)
(* in FoundSet is not among the matched lines of the report, also when it  *)
(* holds another token that is in FoundSet.                                *)
(***************************************************************************)
C1_UnfoundTokenDropsLine ==
    pc = "done" =>
        \A i \in 1..Len(matches) :
            (ArticleTokens(matches[i]) \ found_articles # {})
                => matches[i] \notin ToSet(sorted_matches)

C1_Witness ==
    /\ pc = "done"
    /\ \E i \in 1..Len(matches) :
          /\ ArticleTokens(matches[i]) \ found_articles # {}
          /\ ArticleTokens(matches[i]) \cap found_articles # {}
          /\ matches[i] \notin ToSet(sorted_matches)
    /\ sorted_matches # <<>>

(***************************************************************************)
(* C2: the NOT FOUND list is IdentifierSet minus the identifiers whose     *)
(* recorded line is retained in the report, without duplicates, ascending. *)
(***************************************************************************)
BackingRetained ==
    { backing[i] : i \in { j \in 1..Len(matches) :
                              matches[j] \in ToSet(sorted_matches) } }

C2_NotFoundIsUnbacked ==
    pc = "done" =>
        /\ ToSet(not_found) = article_numbers \ BackingRetained
        /\ \A i, j \in 1..Len(not_found) :
              i < j => Num(not_found[i]) < Num(not_found[j])

(***************************************************************************)
(* C3: once FoundSet is as large as the identifier set, no further         *)
(* candidate document is opened.                                           *)
(***************************************************************************)
C3_NoDocumentOpenedOnceAllFound ==
    [][(InScan /\ AllFound) => opened' = opened]_vars

(***************************************************************************)
(* C4: the matched lines of the report are in ascending order of the first *)
(* token of '1' and 5 digits of each line; a line without one sorts last.  *)
(***************************************************************************)
FirstArticleKey(l) ==
    IF \E p \in 1..Len(l) : IsArticleToken(l, p)
    THEN LET p == CHOOSE q \in 1..Len(l) :
                     IsArticleToken(l, q) /\ \A r \in 1..(q - 1) : ~IsArticleToken(l, r)
         IN  Num(SubSeq(l, p, p + 5))
    ELSE Inf

C4_SortedByFirstArticle ==
    pc = "done" =>
        \A i, j \in 1..Len(sorted_matches) :
            i < j => FirstArticleKey(sorted_matches[i]) <= FirstArticleKey(sorted_matches[j])

(***************************************************************************)
(* C5: an identifier is extracted, or marked found and given a recorded    *)
(* line, only on an occurrence that is not part of a longer run of digits. *)
(***************************************************************************)
C5_NoMatchInsideLongerRun ==
    /\ [](pc = "extracted" =>
            \A id \in article_numbers :
                \E l \in LinesOf(reader.pages) : id \in DigitRunTokens(l))
    /\ [][ /\ \A id \in found_articles' \ found_articles :
                  pc = "line" /\ id \in DigitRunTokens(CurrentLine)
           /\ Len(matches') > Len(matches) =>
                  found_articles' \ found_articles # {} ]_vars

C5_Witness ==
    /\ pc = "line"
    /\ li >= 1
    /\ LastLine = A1 \o <<"1">>
    /\ A1 \in article_numbers \ found_articles
    /\ matches = <<>>

(***************************************************************************)
(* C6: FoundSet is a subset of the identifier set in every state, and no   *)
(* step of the scan removes an identifier from it.                         *)
(***************************************************************************)
C6_FoundSubsetAndGrowing ==
    /\ [](found_articles \subseteq article_numbers)
    /\ [][InScan => found_articles \subseteq found_articles']_vars

C6_Witness ==
    /\ pc = "line"
    /\ Cardinality(found_articles) = 1
    /\ Cardinality(article_numbers) = 2
    /\ fi = 1

(***************************************************************************)
(* C7: an identifier is marked found only on a scanned line that holds it  *)
(* as a bounded token; every identifier of IdentifierSet that is not in    *)
(* FoundSet has no recorded line and is listed as NOT FOUND.               *)
(***************************************************************************)
C7_UnfoundListedNotFound ==
    /\ [](pc = "done" =>
            \A id \in article_numbers \ found_articles :
                /\ id \in ToSet(not_found)
                /\ id \notin ToSet(backing))
    /\ [][\A id \in found_articles' \ found_articles :
              pc = "line" /\ id \in ArticleTokens(CurrentLine)]_vars

C7_Witness ==
    /\ pc = "done"
    /\ opened >= 1
    /\ matches # <<>>
    /\ \E id \in article_numbers \ found_articles : id \in ToSet(not_found)

(***************************************************************************)
(* C8: from the moment FoundSet is as large as the identifier set (the     *)
(* empty set included) no line is tested, no page of the current document  *)
(* has its text extracted and no document is opened.                       *)
(***************************************************************************)
LineTested ==
    /\ pc = "line"
    /\ li' = li + 1
    /\ \E k \in 1..Len(order) : order[k] \notin found_articles

PageExtracted == pc = "page" /\ pi' = pi + 1

DocumentOpened == pc = "file" /\ opened' = opened + 1

C8_LadderStopsAtEveryLevel ==
    [][(InScan /\ AllFound) => ~(LineTested \/ PageExtracted \/ DocumentOpened)]_vars

(***************************************************************************)
(* C9: extract_article_numbers returns exactly the substrings of '1' and 5 *)
(* digits that have no digit right before and right behind (original), no  *)
(* word character right before and right behind (amended).                 *)
(***************************************************************************)
C9_ExactlyDigitBounded ==
    pc = "extracted" =>
        article_numbers = UNION { DigitRunTokens(l) : l \in LinesOf(reader.pages) }

C9_ExactlyWordBounded ==
    pc = "extracted" =>
        article_numbers = UNION { ArticleTokens(l) : l \in LinesOf(reader.pages) }

C9_Witness ==
    /\ pc = "extracted"
    /\ article_numbers # {}
    /\ \E l \in LinesOf(reader.pages) : DigitRunTokens(l) # ArticleTokens(l)
    /\ \E l \in LinesOf(reader.pages) : Cardinality(ArticleTokens(l)) = 2

(***************************************************************************)
(* C10: a scanned line adds at most one record and marks at most one       *)
(* identifier, both or neither; the match list is as long as FoundSet is   *)
(* large.                                                                  *)
(***************************************************************************)
C10_OneRecordPerLine ==
    /\ [](Len(matches) = Cardinality(found_articles))
    /\ [][ /\ Len(matches') <= Len(matches) + 1
           /\ Cardinality(found_articles') <= Cardinality(found_articles) + 1
           /\ (Len(matches') = Len(matches) + 1)
                  <=> (Cardinality(found_articles') = Cardinality(found_articles) + 1) ]_vars

C10_Witness ==
    /\ pc = "line"
    /\ li >= 1
    /\ LastLine = A1 \o SP \o A2
    /\ article_numbers = {A1, A2}
    /\ matches = <<LastLine>>
    /\ Cardinality(found_articles) = 1

====
